---- MODULE Spec2Model ----
(***************************************************************************)
(* py-isopropanol: the request scheduler (abstract_telegram.BotController) *)
(* and the packet server (iso.Server) as one state machine.                *)
(*                                                                         *)
(* Time.  The only use the code makes of datetime.now() is the difference  *)
(* now - token.last_used compared with api_ratelimit_secs, so a clock      *)
(* reading is kept as that difference ("elapsed"), counted in clock ticks  *)
(* and saturated one tick above the cooldown.                              *)
(*                                                                         *)
(* Strings are sequences of one-character strings; bytes are sequences of  *)
(* integers 0..255.                                                        *)
(***************************************************************************)
EXTENDS Integers, Sequences, FiniteSets, TLC

\* ---------------------------------------------------------------- bounds
MaxTokens == 2
MaxRequests == 3
MaxUpdates == 2
MaxPayloadLen == 5
MaxBufferLen == 8

\* BotController.api_ratelimit_secs (0.5 s), in clock ticks of 500 ms.
api_ratelimit_secs == 1

\* BotController.longpoll_timeout_secs
longpoll_timeout_secs == 10

\* iso.ADDR_LEN
ADDR_LEN == 2

ElapsedCap == api_ratelimit_secs + 1

Saturate(n) == IF n > ElapsedCap THEN ElapsedCap ELSE n

\* ------------------------------------------------------- sequence helpers
Last(s) == s[Len(s)]

\* str.join: the elements of list (each a string) separated by sep.
RECURSIVE Join(_, _)
Join(sep, list) ==
    IF list = <<>> THEN <<>>
    ELSE IF Len(list) = 1 THEN Head(list)
    ELSE Head(list) \o sep \o Join(sep, Tail(list))

\* str.split(sep) for a one-character separator.
RECURSIVE Split(_, _)
Split(s, sep) ==
    IF \A i \in 1..Len(s) : s[i] # sep THEN <<s>>
    ELSE LET k == CHOOSE i \in 1..Len(s) :
                     s[i] = sep /\ \A j \in 1..(i - 1) : s[j] # sep
         IN  <<SubSeq(s, 1, k - 1)>> \o Split(SubSeq(s, k + 1, Len(s)), sep)

DigitChars == <<"0", "1", "2", "3", "4", "5", "6", "7", "8", "9">>

\* "%s" % n for a non-negative int.
RECURSIVE IntStr(_)
IntStr(n) ==
    IF n < 10 THEN <<DigitChars[n + 1]>>
    ELSE IntStr(n \div 10) \o <<DigitChars[(n % 10) + 1]>>

IsDigit(c) == \E d \in 1..10 : DigitChars[d] = c

DigitVal(c) == (CHOOSE d \in 1..10 : DigitChars[d] = c) - 1

RECURSIVE ParseInt(_)
ParseInt(s) ==
    IF Len(s) = 1 THEN DigitVal(s[1])
    ELSE 10 * ParseInt(SubSeq(s, 1, Len(s) - 1)) + DigitVal(Last(s))

IsIntStr(s) == Len(s) > 0 /\ \A i \in 1..Len(s) : IsDigit(s[i])

\* ------------------------------------------------------------ iso.py: packets
ValueError == [ok |-> FALSE, error |-> "ValueError"]

\* Packet.magic.encode("utf8"), magic = "xISO"
magic == <<120, 73, 83, 79>>

\* len(Packet.magic.encode("utf8"))
MagicLen == 4

header_size == 2 * ADDR_LEN + MagicLen

\* int.from_bytes(data, byteorder="little", signed=False)
RECURSIVE IntFromBytes(_)
IntFromBytes(data) ==
    IF data = <<>> THEN 0 ELSE Head(data) + 256 * IntFromBytes(Tail(data))

\* int.to_bytes(length, byteorder="little", signed=False)
RECURSIVE IntToBytes(_, _)
IntToBytes(value, length) ==
    IF length = 0 THEN <<>>
    ELSE <<value % 256>> \o IntToBytes(value \div 256, length - 1)

\* BytesIO.read(n) at position pos (0-based): at most n bytes.
StreamRead(data, pos, n) ==
    SubSeq(data, pos + 1, IF pos + n > Len(data) THEN Len(data) ELSE pos + n)

PeerAddr_from_bytes(data) == IntFromBytes(data)

PeerAddr_to_bytes(addr) == IntToBytes(addr, ADDR_LEN)

\* from_bytes without its length check.
Packet_from_bytes_unchecked(data) ==
    [ok      |-> TRUE,
     saddr   |-> PeerAddr_from_bytes(StreamRead(data, 0, ADDR_LEN)),
     daddr   |-> PeerAddr_from_bytes(StreamRead(data, ADDR_LEN, ADDR_LEN)),
     payload |-> StreamRead(data, 2 * ADDR_LEN, Len(data))]

Packet_from_bytes(data) ==
    IF Len(data) < header_size THEN ValueError
    ELSE [ok      |-> TRUE,
          saddr   |-> PeerAddr_from_bytes(StreamRead(data, 0, ADDR_LEN)),
          daddr   |-> PeerAddr_from_bytes(StreamRead(data, ADDR_LEN, ADDR_LEN)),
          payload |-> StreamRead(data, 2 * ADDR_LEN, Len(data))]

Packet_to_bytes(packet) ==
    PeerAddr_to_bytes(packet.saddr) \o PeerAddr_to_bytes(packet.daddr)
        \o packet.payload

PlainCodec_encode(source) == source

PlainCodec_decode(source) == source

SERVER_ADDR == 0

BROADCASR_ADDR == 1

\* base65536: one code point per pair of bytes (b1 + 256 * b2, standing for
\* the code point of block b2 at offset b1), and, for an odd length, a last
\* code point of the padding block (PaddingBlock + b).  Any other value is
\* not a character of the alphabet.
PaddingBlock == 256 * 256

RECURSIVE base65536_encode(_)
base65536_encode(data) ==
    IF data = <<>> THEN <<>>
    ELSE IF Len(data) = 1 THEN <<PaddingBlock + data[1]>>
    ELSE <<data[1] + 256 * data[2]>> \o base65536_encode(SubSeq(data, 3, Len(data)))

InAlphabet(cp) == cp \in 0..(PaddingBlock + 255)

RECURSIVE DecodePoints(_)
DecodePoints(text) ==
    IF text = <<>> THEN <<>>
    ELSE IF Head(text) >= PaddingBlock THEN <<Head(text) - PaddingBlock>>
    ELSE <<Head(text) % 256, Head(text) \div 256>> \o DecodePoints(Tail(text))

\* base65536.decode: ValueError on a character outside the alphabet or on
\* characters after the final (padding-block) one.
base65536_decode(text) ==
    IF \/ \E i \in 1..Len(text) : ~InAlphabet(text[i])
       \/ \E i \in 1..(Len(text) - 1) : text[i] >= PaddingBlock
    THEN ValueError
    ELSE [ok |-> TRUE, data |-> DecodePoints(text)]

\* ------------------------------------------- abstract_telegram.py: requests
\* Keyword names, as strings.
K_timeout == <<"t", "i", "m", "e", "o", "u", "t">>

K_allowed_updates ==
    <<"a", "l", "l", "o", "w", "e", "d", "_", "u", "p", "d", "a", "t", "e", "s">>

K_offset == <<"o", "f", "f", "s", "e", "t">>

K_text == <<"t", "e", "x", "t">>

K_chat_id == <<"c", "h", "a", "t", "_", "i", "d">>

K_message_id == <<"m", "e", "s", "s", "a", "g", "e", "_", "i", "d">>

Arg(key, type, value) == [key |-> key, type |-> type, value |-> value]

\* "%s" % value for str and int; a character of a text is kept as "?",
\* since no reader in the model looks inside a text parameter.
StrOf(arg) ==
    IF arg.type = "int" THEN IntStr(arg.value)
    ELSE [i \in 1..Len(arg.value) |-> "?"]

\* json.dumps(value) for dict, list and bool, its content kept as "?".
JsonDumps(arg) == <<"[", "?", "]">>

\* One pass of the loop body of BotController.method: list += str extends the
\* list by the string's elements, one list element per character.
ListAddStr(list, str) == list \o [i \in 1..Len(str) |-> <<str[i]>>]

RECURSIVE SerializeArgs(_, _)
SerializeArgs(args_serialized, kwargs) ==
    IF kwargs = <<>> THEN args_serialized
    ELSE LET a == Head(kwargs)
             next ==
                 IF a.type \in {"dict", "list", "bool"}
                 THEN ListAddStr(args_serialized, a.key \o <<"=">> \o JsonDumps(a))
                 ELSE IF a.type \in {"str", "int"}
                 THEN ListAddStr(args_serialized, a.key \o <<"=">> \o StrOf(a))
                 ELSE args_serialized
         IN  SerializeArgs(next, Tail(kwargs))

\* The url BotController.method requests: the token, the method name and the
\* query string '&'.join(args_serialized).
MethodUrl(token, method_name, kwargs) ==
    [token  |-> token,
     method |-> method_name,
     query  |-> Join(<<"&">>, SerializeArgs(<<>>, kwargs))]

\* ------------------------------------------------------------- the backend
\* The value of parameter key in a query string, or <<>> when the query has
\* no piece "key=value".
QueryParam(query, key) ==
    LET pieces == Split(query, "&")
        hits == {i \in 1..Len(pieces) :
                    /\ Len(pieces[i]) > Len(key)
                    /\ SubSeq(pieces[i], 1, Len(key) + 1) = key \o <<"=">>}
    IN  IF hits = {} THEN <<>>
        ELSE LET i == CHOOSE h \in hits : \A g \in hits : h <= g
             IN  SubSeq(pieces[i], Len(key) + 2, Len(pieces[i]))

\* getUpdates: the stored updates whose update_id is at or above the offset
\* parameter; without an offset parameter, all the stored updates.
GetUpdatesResult(url, stored) ==
    LET p == QueryParam(url.query, K_offset)
        offset == IF IsIntStr(p) THEN ParseInt(p) ELSE 0
    IN  SelectSeq(stored, LAMBDA u : u.update_id >= offset)

\* What the transport may do with a call.
Outcomes == {"ok", "not_ok", "network_error"}

\* ------------------------------------------------------------------- state
VARIABLES
    tokens,          \* BotController.tokens: <<[key, elapsed]>>, elapsed = now - last_used
    request_queue,   \* BotController.request_queue: ids of the queued requests
    requests,        \* every QueuedRequest created so far: <<[method, args, origin]>>
    futures,         \* QueuedRequest.future of each request: [state, value, error]
    qpc,             \* queue_task: "get" (line 88) or "scan" (lines 89-95)
    request,         \* queue_task's local request (0: none yet)
    cursor,          \* position of the cycle(self.tokens) iterator
    tasks,           \* the request_task tasks awaiting the transport: {[request, token]}
    update_offset,   \* BotController.update_offset
    lpc,             \* listen_task: "poll", "poll_wait", "for", "delete_wait", "raised"
    messages,        \* listen_task: the messages of the round not yet examined
    message,         \* listen_task: the message being examined (NoMessage: none)
    awaited,         \* the request whose future listen_task awaits (0: none)
    packet_handler,  \* Server.packet_handler is not None
    handler_tasks,   \* packet_handler tasks created and not finished
    updates,         \* backend: the stored channel-post updates, in arrival order
    next_update_id,  \* backend: the update_id of the next update
    \* observations
    handler_raised,  \* some packet_handler task ended with an exception
    iter_deletes,    \* delete calls issued while examining `message`
    iter_handlers,   \* handler invocations made while examining `message`
    last_raw,        \* the last item of the raw result of the last non-empty round
    since_selected,  \* per token: ticks since its last selection (Never: none)
    dispatch_log,    \* the requests given a token, in the order of selection
    burst_tokens,    \* the tokens given to the requests of the burst, in that order
    burst,           \* requests enqueued at the instant of the first enqueue
    burst_open,      \* the clock has not moved since the first enqueue
    burst_wait,      \* ticks the burst has waited so far, up to WaitCap
    burst_late,      \* a request of the burst was selected after more than a tick
    last_token,      \* the position in tokens of the token selected last (0: none)
    deliveries,      \* per update_id: the getUpdates answers that held the update
    \* the packet codec on its own
    sent,            \* Server.send: the Packet it built (NoPacket: none)
    buffer,          \* the bytes handed to Packet.from_bytes
    parsed           \* what Packet.from_bytes made of buffer (NotParsed: not called)

vars == <<tokens, request_queue, requests, futures, qpc, request, cursor, tasks,
          update_offset, lpc, messages, message, awaited, packet_handler,
          handler_tasks, updates, next_update_id, handler_raised, iter_deletes,
          iter_handlers, last_raw, since_selected, dispatch_log, burst_tokens,
          burst, burst_open, burst_wait, burst_late, last_token, deliveries,
          sent, buffer, parsed>>

scheduler_vars == <<tokens, request_queue, qpc, request, cursor, tasks,
                    since_selected, dispatch_log, last_token>>

listen_vars == <<update_offset, lpc, messages, message, awaited, iter_deletes,
                 iter_handlers, last_raw>>

backend_vars == <<updates, next_update_id, deliveries>>

codec_vars == <<sent, buffer, parsed>>

burst_vars == <<burst, burst_open, burst_wait, burst_late, burst_tokens>>

Never == 0 - 1

WaitCap == api_ratelimit_secs + 1

NoUpdate == [update_id |-> Never]

NoMessage == [id |-> 0]

NoPacket == [ok |-> FALSE, error |-> "no packet"]

NotParsed == [ok |-> FALSE, error |-> "not parsed"]

\* Server.channel_id
channel_id == 1

N == Len(tokens)

\* ------------------------------------------------- BotController.__init__
\* last_used = datetime.now(): a token starts in its cooldown.
InitElapsedNow == api_ratelimit_secs - api_ratelimit_secs

\* last_used = datetime.now() - timedelta(seconds=api_ratelimit_secs)
InitElapsed == api_ratelimit_secs

BotToken(key) == [key |-> key, elapsed |-> InitElapsed]

Init ==
    /\ \E n \in 0..MaxTokens : tokens = [i \in 1..n |-> BotToken(i)]
    /\ request_queue = <<>>
    /\ requests = <<>>
    /\ futures = <<>>
    /\ qpc = "get"
    /\ request = 0
    /\ cursor = 1
    /\ tasks = {}
    /\ update_offset = 0
    /\ lpc = "poll"
    /\ messages = <<>>
    /\ message = NoMessage
    /\ awaited = 0
    /\ packet_handler \in BOOLEAN
    /\ handler_tasks = 0
    /\ updates = <<>>
    /\ next_update_id = 1
    /\ handler_raised = FALSE
    /\ iter_deletes = 0
    /\ iter_handlers = 0
    /\ last_raw = NoUpdate
    /\ since_selected = [i \in 1..N |-> Never]
    /\ dispatch_log = <<>>
    /\ burst_tokens = <<>>
    /\ burst = {}
    /\ burst_open = TRUE
    /\ burst_wait = 0
    /\ burst_late = FALSE
    /\ last_token = 0
    /\ deliveries = [u \in 1..MaxUpdates |-> 0]
    /\ sent = NoPacket
    /\ buffer = <<>>
    /\ parsed = NotParsed

\* ---------------------------------------------------------------- the clock
Aged(t) == [t EXCEPT !.elapsed = Saturate(t.elapsed + 1)]

AgedSince(n) == IF n = Never THEN Never ELSE Saturate(n + 1)

Selected(r) == \E k \in 1..Len(dispatch_log) : dispatch_log[k] = r

\* Some request of the burst is still to be given a token.
BurstWaiting == \E r \in burst : ~Selected(r)

\* datetime.now() moves on by one tick.
Tick ==
    /\ tokens' = [i \in 1..N |-> Aged(tokens[i])]
    /\ since_selected' = [i \in 1..N |-> AgedSince(since_selected[i])]
    /\ burst_open' = (burst_open /\ burst = {})
    /\ burst_wait' = IF BurstWaiting /\ burst_wait < WaitCap
                     THEN burst_wait + 1 ELSE burst_wait
    /\ UNCHANGED <<burst, burst_late, burst_tokens>>
    /\ UNCHANGED <<request_queue, requests, futures, qpc, request, cursor, tasks,
                   dispatch_log, last_token, packet_handler, handler_tasks,
                   handler_raised>>
    /\ UNCHANGED listen_vars
    /\ UNCHANGED backend_vars
    /\ UNCHANGED codec_vars

\* ------------------------------------------- BotController.queue_request
PendingFuture == [state |-> "pending", value |-> <<>>, error |-> ""]

\* A resolved future whose awaiting caller has resumed and taken the result
\* or the exception; nothing reads it afterwards.
TakenFuture == [state |-> "taken", value |-> <<>>, error |-> ""]

\* The QueuedRequest of a taken future: no reference to it is left.
TakenRequest == [method |-> "", args |-> <<>>, origin |-> ""]

\* The request is created and put on the queue; the caller then awaits its
\* future.  The four primed variables are all that queue_request writes.
QueueRequest(method_name, kwargs, origin) ==
    /\ Len(requests) < MaxRequests
    /\ requests' = Append(requests,
                          [method |-> method_name, args |-> kwargs, origin |-> origin])
    /\ futures' = Append(futures, PendingFuture)
    /\ request_queue' = Append(request_queue, Len(requests) + 1)
    /\ burst' = IF burst_open THEN burst \cup {Len(requests) + 1} ELSE burst
    /\ UNCHANGED <<burst_open, burst_wait, burst_late, burst_tokens>>

\* ---------------------------------------------- BotController.queue_task
\* A queue that hands out its newest item first.
QueueGetNewest(queue) ==
    [item |-> Last(queue), rest |-> SubSeq(queue, 1, Len(queue) - 1)]

\* asyncio.Queue.get on a queue that is not empty: its oldest item.
QueueGetNowait(queue) == [item |-> Head(queue), rest |-> Tail(queue)]

\* request = await self.request_queue.get(); for token in cycle(self.tokens):
\* a new iterator, at the first token.  With no token the for loop has no
\* iteration and the loop is back at get.
QueueGet ==
    /\ qpc = "get"
    /\ request_queue # <<>>
    /\ request' = QueueGetNowait(request_queue).item
    /\ request_queue' = QueueGetNowait(request_queue).rest
    /\ cursor' = 1
    /\ qpc' = IF N = 0 THEN "get" ELSE "scan"
    /\ UNCHANGED <<tokens, tasks, since_selected, dispatch_log, last_token>>
    /\ UNCHANGED <<requests, futures, packet_handler, handler_tasks, handler_raised>>
    /\ UNCHANGED listen_vars
    /\ UNCHANGED backend_vars
    /\ UNCHANGED burst_vars
    /\ UNCHANGED codec_vars

\* Eligible as soon as the cooldown is reached, not passed.
EligibleAtCooldown(token) == token.elapsed >= api_ratelimit_secs

\* datetime.now() - token.last_used > timedelta(seconds=self.api_ratelimit_secs)
Eligible(token) == token.elapsed > api_ratelimit_secs

\* token.last_used = datetime.now()
Stamped(token) == [token EXCEPT !.elapsed = 0]

\* The loop awaiting request_task instead of creating a task for it: no
\* selection while a call is in flight.
DispatchAwaitingCall ==
    /\ tasks = {}
    /\ qpc = "scan"
    /\ Eligible(tokens[cursor])
    /\ tasks' = tasks \cup {[request |-> request, token |-> tokens[cursor].key]}
    /\ tokens' = [tokens EXCEPT ![cursor] = Stamped(tokens[cursor])]
    /\ qpc' = "get"
    /\ cursor' = 1
    /\ since_selected' = [since_selected EXCEPT ![cursor] = 0]
    /\ dispatch_log' = Append(dispatch_log, request)
    /\ last_token' = cursor
    /\ burst_tokens' = IF request \in burst
                       THEN Append(burst_tokens, tokens[cursor].key)
                       ELSE burst_tokens
    /\ burst_late' = (burst_late \/ (request \in burst /\ burst_wait > 1))
    /\ UNCHANGED <<request_queue, request>>
    /\ UNCHANGED <<requests, futures, packet_handler, handler_tasks, handler_raised>>
    /\ UNCHANGED listen_vars
    /\ UNCHANGED backend_vars
    /\ UNCHANGED <<burst, burst_open, burst_wait>>
    /\ UNCHANGED codec_vars

\* The token is eligible: create_task(request_task(token.key, request)),
\* stamp the token and break, back to get.
Dispatch ==
    /\ qpc = "scan"
    /\ Eligible(tokens[cursor])
    /\ tasks' = tasks \cup {[request |-> request, token |-> tokens[cursor].key]}
    /\ tokens' = [tokens EXCEPT ![cursor] = Stamped(tokens[cursor])]
    /\ qpc' = "get"
    /\ cursor' = 1
    /\ since_selected' = [since_selected EXCEPT ![cursor] = 0]
    /\ dispatch_log' = Append(dispatch_log, request)
    /\ last_token' = cursor
    /\ burst_tokens' = IF request \in burst
                       THEN Append(burst_tokens, tokens[cursor].key)
                       ELSE burst_tokens
    /\ burst_late' = (burst_late \/ (request \in burst /\ burst_wait > 1))
    /\ UNCHANGED <<request_queue, request>>
    /\ UNCHANGED <<requests, futures, packet_handler, handler_tasks, handler_raised>>
    /\ UNCHANGED listen_vars
    /\ UNCHANGED backend_vars
    /\ UNCHANGED <<burst, burst_open, burst_wait>>
    /\ UNCHANGED codec_vars

\* The token is not eligible: await asyncio.sleep(0), then the next token of
\* the cycle.
ScanNext ==
    /\ qpc = "scan"
    /\ ~Eligible(tokens[cursor])
    /\ cursor' = (cursor % N) + 1
    /\ UNCHANGED <<tokens, request_queue, qpc, request, tasks, since_selected,
                   dispatch_log, last_token>>
    /\ UNCHANGED <<requests, futures, packet_handler, handler_tasks, handler_raised>>
    /\ UNCHANGED listen_vars
    /\ UNCHANGED backend_vars
    /\ UNCHANGED burst_vars
    /\ UNCHANGED codec_vars

\* ------------------------------------ queue_task.request_task and method
\* request_task reading the loop's variable instead of its parameter.
TaskRequestOfLoop(task, loop_request) == loop_request

\* The request a request_task resolves: its own parameter, not the loop's
\* current local.
TaskRequest(task, loop_request) == task.request

\* BotController.method after http_get_json returned or raised: the value it
\* returns or the exception it raises (raised = "": none).
MethodEnd(outcome, url, method_name, stored) ==
    IF outcome = "network_error" THEN [raised |-> "NetworkError", value |-> <<>>]
    ELSE IF outcome = "not_ok" THEN [raised |-> "TelegramError", value |-> <<>>]
    ELSE [raised |-> "",
          value  |-> IF method_name = "getUpdates"
                     THEN GetUpdatesResult(url, stored) ELSE <<>>]

\* request_task returning on an exception without setting it.
ResolvedFutureLosesError(end) ==
    IF end.raised # "" THEN PendingFuture
    ELSE [state |-> "result", value |-> end.value, error |-> ""]

\* request_task: future.set_exception(e) or future.set_result(result).
ResolvedFuture(end) ==
    IF end.raised # "" THEN [state |-> "exception", value |-> <<>>, error |-> end.raised]
    ELSE [state |-> "result", value |-> end.value, error |-> ""]

\* The counts of deliveries after an answer: one more for every update the
\* answer holds (a call that is not getUpdates, or fails, holds none).
Delivered(counts, end) ==
    [u \in DOMAIN counts |->
        IF \E k \in 1..Len(end.value) : end.value[k].update_id = u
        THEN counts[u] + 1 ELSE counts[u]]

HttpReturn(task, outcome) ==
    LET r == TaskRequest(task, request)
        url == MethodUrl(task.token, requests[task.request].method,
                         requests[task.request].args)
        end == MethodEnd(outcome, url, requests[task.request].method, updates)
    IN  /\ task \in tasks
        /\ tasks' = tasks \ {task}
        /\ futures' = [futures EXCEPT ![r] = ResolvedFuture(end)]
        /\ UNCHANGED <<tokens, request_queue, qpc, request, cursor, since_selected,
                       dispatch_log, last_token>>
        /\ UNCHANGED <<requests, packet_handler, handler_tasks, handler_raised>>
        /\ UNCHANGED listen_vars
        /\ deliveries' = Delivered(deliveries, end)
        /\ UNCHANGED <<updates, next_update_id>>
        /\ UNCHANGED burst_vars
        /\ UNCHANGED codec_vars

\* ------------------------------------------------------- Server.send
Packet(saddr, daddr, payload) ==
    [ok |-> TRUE, saddr |-> saddr, daddr |-> daddr, payload |-> payload]

\* The text Server.send hands to send_message.
SendText(daddr, payload) ==
    base65536_encode(PlainCodec_encode(Packet_to_bytes(Packet(SERVER_ADDR, daddr, payload))))

SendAddrs == {42}

SendPayloads == {<<104, 105>>}

Send(daddr, payload) ==
    /\ QueueRequest("sendMessage",
                    <<Arg(K_text, "str", SendText(daddr, payload)),
                      Arg(K_chat_id, "int", channel_id)>>,
                    "send")
    /\ UNCHANGED <<tokens, qpc, request, cursor, tasks, since_selected,
                   dispatch_log, last_token>>
    /\ UNCHANGED <<packet_handler, handler_tasks, handler_raised>>
    /\ UNCHANGED listen_vars
    /\ UNCHANGED backend_vars
    /\ UNCHANGED codec_vars

\* await self.bot.send_message(...) in Server.send returns or raises to the
\* caller of send.
SendDone(r) ==
    /\ r \in 1..Len(requests)
    /\ requests[r].origin = "send"
    /\ futures[r].state \in {"result", "exception"}
    /\ futures' = [futures EXCEPT ![r] = TakenFuture]
    /\ requests' = [requests EXCEPT ![r] = TakenRequest]
    /\ UNCHANGED scheduler_vars
    /\ UNCHANGED <<packet_handler, handler_tasks, handler_raised>>
    /\ UNCHANGED listen_vars
    /\ UNCHANGED backend_vars
    /\ UNCHANGED burst_vars
    /\ UNCHANGED codec_vars

\* ------------------------------------------------ BotController.poll_posts
GetUpdatesArgs(offset) ==
    <<Arg(K_timeout, "int", longpoll_timeout_secs),
      Arg(K_allowed_updates, "list", <<"channel_post">>),
      Arg(K_offset, "int", offset)>>

\* Message.from_dict
Message_from_dict(src) ==
    [text |-> src.text, id |-> src.message_id, chat_id |-> src.chat_id]

HasText(update) == "text" \in DOMAIN update.channel_post

\* The offset moved on by an empty round.
poll_posts_offset_bumped(res, offset) ==
    IF Len(res) = 0 THEN offset + 1 ELSE Last(res).update_id

\* The offset taken from the last retained item.
poll_posts_offset_retained(res, offset) ==
    LET kept == SelectSeq(res, HasText)
    IN  IF Len(kept) = 0 THEN offset ELSE Last(kept).update_id

\* The offset reset by an empty round.
poll_posts_offset_reset(res, offset) ==
    IF Len(res) = 0 THEN 0 ELSE Last(res).update_id

\* lines 153-157: the offset after a round whose raw result is res.
poll_posts_offset(res, offset) ==
    IF Len(res) = 0 THEN offset ELSE Last(res).update_id

\* lines 153-165: the messages a round returns.
poll_posts_result(res) ==
    LET kept == SelectSeq(res, HasText)
    IN  [i \in 1..Len(kept) |-> Message_from_dict(kept[i].channel_post)]

\* ---------------------------------------------------- Server.listen_task
\* messages = await self.bot.poll_posts(self.channel_id), up to the await of
\* the request's future.
ListenPoll ==
    /\ lpc = "poll"
    /\ QueueRequest("getUpdates", GetUpdatesArgs(update_offset), "listen")
    /\ awaited' = Len(requests) + 1
    /\ lpc' = "poll_wait"
    /\ UNCHANGED <<tokens, qpc, request, cursor, tasks, since_selected,
                   dispatch_log, last_token>>
    /\ UNCHANGED <<packet_handler, handler_tasks, handler_raised>>
    /\ UNCHANGED <<update_offset, messages, message, iter_deletes, iter_handlers,
                   last_raw>>
    /\ UNCHANGED backend_vars
    /\ UNCHANGED codec_vars

\* The loop polling again after each message, the rest of the round or not.
NextStepPoll(rest) == "poll"

\* Where the loop goes once it is through with a message or a round.
NextStep(rest) == IF rest = <<>> THEN "poll" ELSE "for"

\* What an exception out of an awaited call does to listen_task: nothing
\* catches it, the task ends.
AfterRaise == "raised"

\* The future of the getUpdates request is resolved: the rest of poll_posts,
\* then listen_task up to the for loop.
PollDone ==
    /\ lpc = "poll_wait"
    /\ futures[awaited].state # "pending"
    /\ awaited' = 0
    /\ futures' = [futures EXCEPT ![awaited] = TakenFuture]
    /\ requests' = [requests EXCEPT ![awaited] = TakenRequest]
    /\ IF futures[awaited].state = "exception"
       THEN /\ lpc' = AfterRaise
            /\ UNCHANGED <<update_offset, messages, last_raw>>
       ELSE LET res == futures[awaited].value
            IN  /\ update_offset' = poll_posts_offset(res, update_offset)
                /\ messages' = poll_posts_result(res)
                /\ last_raw' = IF Len(res) = 0 THEN last_raw ELSE Last(res)
                /\ lpc' = NextStep(poll_posts_result(res))
    /\ UNCHANGED <<message, iter_deletes, iter_handlers>>
    /\ UNCHANGED scheduler_vars
    /\ UNCHANGED <<packet_handler, handler_tasks, handler_raised>>
    /\ UNCHANGED backend_vars
    /\ UNCHANGED burst_vars
    /\ UNCHANGED codec_vars

\* Lines 128-156: what the loop body makes of a message.
Route(msg) ==
    LET encoded_packet == base65536_decode(msg.text)
    IN  IF ~encoded_packet.ok THEN "decode_error"
        ELSE LET packet == Packet_from_bytes(PlainCodec_decode(encoded_packet.data))
             IN  IF ~packet.ok THEN "packet_error"
                 ELSE IF packet.daddr = SERVER_ADDR THEN "server"
                 ELSE IF packet.daddr = BROADCASR_ADDR THEN "broadcast"
                 ELSE "routable"

\* A delete call for every message, whatever its route.
DeleteCallsAlways(route) == 1

\* The delete call left out of the server branch.
DeleteCallsOnErrorOnly(route) ==
    IF route \in {"decode_error", "packet_error"} THEN 1 ELSE 0

\* The number of delete_message calls of the loop body.
DeleteCalls(route) ==
    IF route \in {"decode_error", "packet_error", "server"} THEN 1 ELSE 0

\* The number of packet_handler tasks the loop body creates.
HandlerCalls(route, handler) ==
    IF route = "server" /\ handler THEN 1 ELSE 0

DeleteArgs(msg) ==
    <<Arg(K_chat_id, "int", msg.chat_id), Arg(K_message_id, "int", msg.id)>>

\* One iteration of the for loop, up to the await in delete_message or, with
\* no delete, to its end.
ExamineMessage ==
    /\ lpc = "for"
    /\ messages # <<>>
    /\ LET msg == Head(messages)
           route == Route(msg)
       IN  /\ message' = msg
           /\ messages' = Tail(messages)
           /\ iter_deletes' = DeleteCalls(route)
           /\ iter_handlers' = HandlerCalls(route, packet_handler)
           /\ handler_tasks' = handler_tasks + HandlerCalls(route, packet_handler)
           /\ IF DeleteCalls(route) > 0
              THEN /\ QueueRequest("deleteMessage", DeleteArgs(msg), "listen")
                   /\ awaited' = Len(requests) + 1
                   /\ lpc' = "delete_wait"
              ELSE /\ lpc' = NextStep(Tail(messages))
                   /\ UNCHANGED <<requests, futures, request_queue, awaited>>
                   /\ UNCHANGED burst_vars
    /\ UNCHANGED <<tokens, qpc, request, cursor, tasks, since_selected,
                   dispatch_log, last_token>>
    /\ UNCHANGED <<update_offset, last_raw, packet_handler, handler_raised>>
    /\ UNCHANGED backend_vars
    /\ UNCHANGED codec_vars

\* The future of the deleteMessage request is resolved.
DeleteDone ==
    /\ lpc = "delete_wait"
    /\ futures[awaited].state # "pending"
    /\ awaited' = 0
    /\ futures' = [futures EXCEPT ![awaited] = TakenFuture]
    /\ requests' = [requests EXCEPT ![awaited] = TakenRequest]
    /\ lpc' = IF futures[awaited].state = "exception"
              THEN AfterRaise ELSE NextStep(messages)
    /\ UNCHANGED <<update_offset, messages, message, iter_deletes, iter_handlers,
                   last_raw>>
    /\ UNCHANGED scheduler_vars
    /\ UNCHANGED <<packet_handler, handler_tasks, handler_raised>>
    /\ UNCHANGED backend_vars
    /\ UNCHANGED burst_vars
    /\ UNCHANGED codec_vars

\* A packet_handler task ends, normally or with an exception; it is a task of
\* its own (create_task), nobody awaits it.
HandlerDone(raised) ==
    /\ handler_tasks > 0
    /\ handler_tasks' = handler_tasks - 1
    /\ handler_raised' = (handler_raised \/ raised)
    /\ UNCHANGED scheduler_vars
    /\ UNCHANGED <<requests, futures, packet_handler>>
    /\ UNCHANGED listen_vars
    /\ UNCHANGED backend_vars
    /\ UNCHANGED burst_vars
    /\ UNCHANGED codec_vars

\* ------------------------------------------------------------- the channel
\* What a post of the channel may hold: no text at all (NoText), a text that
\* is not base65536, and the encoding of a buffer too short for a packet, of
\* a packet to the server, of a broadcast and of a packet to another peer.
NoText == <<-2>>

PostTexts ==
    {NoText,
     <<-1>>,
     base65536_encode(<<5, 0, 0>>),
     base65536_encode(<<5, 0, 0, 0, 7, 7, 7, 7>>),
     base65536_encode(<<5, 0, 1, 0, 7, 7, 7, 7>>),
     base65536_encode(<<5, 0, 9, 0, 7, 7, 7, 7, 7>>)}

ChannelPost(id, text) ==
    IF text = NoText
    THEN [message_id |-> 10 + id, chat_id |-> channel_id]
    ELSE [message_id |-> 10 + id, chat_id |-> channel_id, text |-> text]

\* Somebody posts to the channel: the backend stores an update for it.
Post(text) ==
    /\ next_update_id <= MaxUpdates
    /\ updates' = Append(updates, [update_id    |-> next_update_id,
                                   channel_post |-> ChannelPost(next_update_id, text)])
    /\ next_update_id' = next_update_id + 1
    /\ UNCHANGED deliveries
    /\ UNCHANGED scheduler_vars
    /\ UNCHANGED <<requests, futures, packet_handler, handler_tasks, handler_raised>>
    /\ UNCHANGED listen_vars
    /\ UNCHANGED burst_vars
    /\ UNCHANGED codec_vars

\* The backend drops its oldest stored update (updates are kept for a day).
Expire ==
    /\ updates # <<>>
    /\ updates' = Tail(updates)
    /\ UNCHANGED <<next_update_id, deliveries>>
    /\ UNCHANGED scheduler_vars
    /\ UNCHANGED <<requests, futures, packet_handler, handler_tasks, handler_raised>>
    /\ UNCHANGED listen_vars
    /\ UNCHANGED burst_vars
    /\ UNCHANGED codec_vars

\* ------------------------------------------------- the packet codec on its own
\* Everything but the codec's variables.
server_vars == <<scheduler_vars, listen_vars, backend_vars, burst_vars, requests,
                 futures, packet_handler, handler_tasks, handler_raised>>

SampleBytes == {0, 255}

SampleAddrs == {0, 42, 65535}

BytesUpTo(n) == UNION {[1..k -> SampleBytes] : k \in 0..n}

\* Server.send(daddr, payload) up to the text it hands to send_message, and
\* that text on the receiving side (lines 129 and 137) up to the call of
\* Packet.from_bytes.
SendPacket(daddr, payload) ==
    /\ sent' = Packet(SERVER_ADDR, daddr, payload)
    /\ buffer' = PlainCodec_decode(base65536_decode(SendText(daddr, payload)).data)
    /\ parsed' = NotParsed
    /\ UNCHANGED server_vars

\* Some buffer, of any origin, is about to be handed to Packet.from_bytes.
ReceiveBuffer(data) ==
    /\ sent' = NoPacket
    /\ buffer' = data
    /\ parsed' = NotParsed
    /\ UNCHANGED server_vars

\* Packet.from_bytes(buffer)
FromBytes ==
    /\ parsed = NotParsed
    /\ parsed' = Packet_from_bytes(buffer)
    /\ UNCHANGED <<sent, buffer>>
    /\ UNCHANGED server_vars

\* ------------------------------------------------------- specifications
Next ==
    \/ Tick
    \/ QueueGet
    \/ Dispatch
    \/ ScanNext
    \/ \E task \in tasks, outcome \in Outcomes : HttpReturn(task, outcome)
    \/ \E daddr \in SendAddrs, payload \in SendPayloads : Send(daddr, payload)
    \/ \E r \in 1..MaxRequests : SendDone(r)
    \/ ListenPoll
    \/ PollDone
    \/ ExamineMessage
    \/ DeleteDone
    \/ \E raised \in BOOLEAN : HandlerDone(raised)
    \/ \E text \in PostTexts : Post(text)
    \/ Expire

Spec == Init /\ [][Next]_vars

\* The scheduler on its own: BotController.start() without Server.start(),
\* its requests coming from callers of send.
SchedulerNext ==
    \/ Tick
    \/ QueueGet
    \/ Dispatch
    \/ ScanNext
    \/ \E task \in tasks, outcome \in Outcomes : HttpReturn(task, outcome)
    \/ \E daddr \in SendAddrs, payload \in SendPayloads : Send(daddr, payload)
    \/ \E r \in 1..MaxRequests : SendDone(r)

SchedulerInit == Init /\ packet_handler = FALSE

SchedulerSpec == SchedulerInit /\ [][SchedulerNext]_vars

\* The dispatch loop has nothing it can do before the clock moves: the queue
\* is empty, or no token is eligible.
DispatcherBlocked ==
    \/ qpc = "get" /\ request_queue = <<>>
    \/ qpc = "scan" /\ \A i \in 1..N : ~Eligible(tokens[i])

\* The clock moves only when the dispatch loop is blocked: its steps take no
\* time of their own.
TickBlocked == DispatcherBlocked /\ Tick

UrgentNext ==
    \/ TickBlocked
    \/ QueueGet
    \/ Dispatch
    \/ ScanNext
    \/ \E task \in tasks, outcome \in Outcomes : HttpReturn(task, outcome)
    \/ \E daddr \in SendAddrs, payload \in SendPayloads : Send(daddr, payload)
    \/ \E r \in 1..MaxRequests : SendDone(r)

UrgentSpec == SchedulerInit /\ [][UrgentNext]_vars

\* The event loop runs every task that is ready, the clock advances and the
\* transport ends every call.
FairSchedulerSpec ==
    /\ SchedulerSpec
    /\ WF_vars(Tick)
    /\ WF_vars(QueueGet)
    /\ WF_vars(Dispatch)
    /\ WF_vars(ScanNext)
    /\ WF_vars(\E task \in tasks, outcome \in Outcomes : HttpReturn(task, outcome))

\* The event loop runs the dispatch loop whenever it is ready and the clock
\* advances, while the transport is free never to end a call.
DispatchFairSpec ==
    /\ SchedulerSpec
    /\ WF_vars(Tick)
    /\ WF_vars(QueueGet)
    /\ WF_vars(Dispatch)
    /\ WF_vars(ScanNext)

\* The server with one credential and no other caller: Server.start().
ListenNext ==
    \/ TickBlocked
    \/ QueueGet
    \/ Dispatch
    \/ ScanNext
    \/ \E task \in tasks, outcome \in Outcomes : HttpReturn(task, outcome)
    \/ ListenPoll
    \/ PollDone
    \/ ExamineMessage
    \/ DeleteDone
    \/ \E raised \in BOOLEAN : HandlerDone(raised)
    \/ \E text \in PostTexts : Post(text)
    \/ Expire

ListenInit == Init /\ N = 1

ListenSpec == ListenInit /\ [][ListenNext]_vars

\* Packet.to_bytes and Packet.from_bytes applied to packets and buffers.
CodecNext ==
    \/ \E daddr \in SampleAddrs, payload \in BytesUpTo(MaxPayloadLen) :
           SendPacket(daddr, payload)
    \/ \E data \in BytesUpTo(MaxBufferLen) : ReceiveBuffer(data)
    \/ FromBytes

CodecInit == Init /\ N = 0 /\ packet_handler = FALSE

CodecSpec == CodecInit /\ [][CodecNext]_vars

\* ------------------------------------------------------------------ claims
Resolved(r) == r <= Len(futures) /\ futures[r].state # "pending"

\* The token whose request_task this step creates, if any.
SelectedNow(i) == \E task \in tasks' \ tasks : task.token = tokens[i].key

\* C1: every selection of a credential happens with now - last_used above
\* the cooldown, more than a cooldown after the previous selection of the same
\* credential, and stamps last_used with now in the same step.
C1_RateLimit ==
    [][\A i \in 1..N :
          SelectedNow(i) =>
              /\ tokens[i].elapsed > api_ratelimit_secs
              /\ since_selected[i] = Never \/ since_selected[i] > api_ratelimit_secs
              /\ tokens'[i].elapsed = 0]_vars

\* One credential has served two requests.
C1_Witness == N = 1 /\ Len(dispatch_log) >= 2

Distinct(seq) == \A i, j \in 1..Len(seq) : i # j => seq[i] # seq[j]

\* C2: when the requests enqueued together on a fresh scheduler are no more
\* than the credentials, none of them is given a token later than one tick
\* after it was enqueued, none is still waiting after that tick, and no two of
\* them are given the same credential.
C2_BurstAtOnce ==
    Cardinality(burst) <= N =>
        /\ ~burst_late
        /\ BurstWaiting => burst_wait <= 1
        /\ Distinct(burst_tokens)

\* Two requests enqueued together, both dispatched.
C2_Witness == N >= 2 /\ Cardinality(burst) = 2 /\ Len(burst_tokens) = 2

\* C3: requests are given a credential in the order they were enqueued (ids
\* are given in the order of the puts).
C3_FifoSelection ==
    \A i, j \in 1..Len(dispatch_log) : i < j => dispatch_log[i] < dispatch_log[j]

\* Two requests selected in order, the later one completed first.
C3_Witness ==
    /\ Len(dispatch_log) >= 2
    /\ futures[dispatch_log[1]].state = "pending"
    /\ futures[dispatch_log[2]].state \in {"result", "exception"}

\* C4: with at least one credential, every enqueued request's future is
\* eventually resolved.
C4_EventuallyResolved ==
    \A r \in 1..MaxRequests : (N >= 1 /\ r <= Len(requests)) ~> Resolved(r)

\* One future holds a result and another an exception.
C4_Witness ==
    \E r1, r2 \in 1..Len(futures) :
        futures[r1].state = "result" /\ futures[r2].state = "exception"

Failed(r) == r <= Len(futures) /\ futures[r].state = "exception"

\* C5: a step that puts an exception into a future ends the call of that very
\* request, changes no other future and nothing of the dispatch loop; and with
\* a failed request around, every other request is still resolved.
C5_FailureIsolated ==
    /\ [][\A r \in 1..Len(futures) :
             (futures[r].state = "pending" /\ futures'[r].state = "exception") =>
                 /\ \E task \in tasks \ tasks' : task.request = r
                 /\ \A o \in 1..Len(futures) : o # r => futures'[o] = futures[o]
                 /\ UNCHANGED <<qpc, request, cursor, request_queue, tokens>>]_vars
    /\ \A r \in 1..MaxRequests :
           (/\ N >= 1
            /\ r <= Len(requests)
            /\ \E o \in 1..MaxRequests : o # r /\ Failed(o)) ~> Resolved(r)

\* A request that failed, and a later one that got its result.
C5_Witness ==
    \E r1, r2 \in 1..Len(futures) :
        r1 < r2 /\ futures[r1].state = "exception" /\ futures[r2].state = "result"

\* C6: no error of a poll or delete call ends listen_task.
C6_ListenNeverEnds == lpc # "raised"

\* C7: after a round with a non-empty raw result the offset is the update_id
\* of the last raw item, retained or not.
C7_OffsetIsLastRaw ==
    last_raw # NoUpdate => update_offset = last_raw.update_id

\* The last raw item of a round had no text and was filtered out.
C7_Witness ==
    /\ last_raw # NoUpdate
    /\ ~HasText(last_raw)
    /\ update_offset = last_raw.update_id

\* C8: the offset never decreases.
C8_OffsetMonotonic == [][update_offset' >= update_offset]_vars

\* The offset has advanced and a later round has been answered with nothing.
C8_Witness ==
    /\ update_offset > 0
    /\ lpc = "poll_wait"
    /\ futures[awaited].state = "result"
    /\ futures[awaited].value = <<>>

DecodeFails(msg) == msg # NoMessage /\ Route(msg) \in {"decode_error", "packet_error"}

\* C9: a message that fails decoding gets one delete call and no handler, and
\* the loop goes on after it.
C9_DecodeFailure ==
    DecodeFails(message) =>
        /\ iter_deletes = 1
        /\ iter_handlers = 0
        /\ lpc # "raised"

ToServer(msg) == msg # NoMessage /\ Route(msg) = "server"

\* C10: with a handler configured, a packet to the server gets one handler
\* invocation and one delete call, whatever becomes of the handler, and a
\* handler that raises leaves listen_task where it is.
C10_ServerPacket ==
    [][/\ (ToServer(message') /\ packet_handler) =>
              (iter_handlers' = 1 /\ iter_deletes' = 1)
       /\ (handler_raised' /\ ~handler_raised) => UNCHANGED listen_vars]_vars

\* The handler of a packet to the server raised; the delete call was made and
\* the loop is polling again.
C10_Witness ==
    /\ ToServer(message)
    /\ packet_handler
    /\ handler_raised
    /\ iter_deletes = 1
    /\ lpc = "poll_wait"

\* The packet a message's text decodes to.
PacketOf(msg) ==
    Packet_from_bytes(PlainCodec_decode(base65536_decode(msg.text).data))

\* The message holds a well-formed packet whose destination is not the server.
NotToServer(msg) ==
    /\ msg # NoMessage
    /\ base65536_decode(msg.text).ok
    /\ PacketOf(msg).ok
    /\ PacketOf(msg).daddr # SERVER_ADDR

\* C11: the pass of the loop body over a well-formed packet to BROADCAST or to
\* any address other than SERVER makes no delete call and no handler
\* invocation, queues no request, and leaves the loop at the next message (or
\* at the next poll when it was the last one of the round).
C11_Retained ==
    [][(/\ lpc = "for"
        /\ messages # <<>>
        /\ messages' # messages
        /\ NotToServer(Head(messages))) =>
            /\ message' = Head(messages)
            /\ messages' = Tail(messages)
            /\ iter_deletes' = 0
            /\ iter_handlers' = 0
            /\ UNCHANGED <<requests, futures, request_queue, awaited, handler_tasks>>
            /\ lpc' = IF messages' = <<>> THEN "poll" ELSE "for"]_vars

\* A broadcast packet was examined, nothing was deleted or handled, and the
\* loop is polling again.
C11_Witness ==
    /\ NotToServer(message)
    /\ PacketOf(message).daddr = BROADCASR_ADDR
    /\ iter_deletes = 0
    /\ iter_handlers = 0
    /\ lpc = "poll_wait"

\* C12: the packet Server.send built comes back from Packet.from_bytes applied
\* to the bytes send produced: same source, destination and payload.
C12_RoundTrip ==
    (sent # NoPacket /\ parsed # NotParsed) => parsed = sent

\* C13: to_bytes writes the marker, the source, the destination and the
\* payload, header_size + len(payload) bytes in all; from_bytes takes the
\* addresses from bytes 4..7 and the payload from byte 8 on.
C13_WireFormat ==
    /\ sent # NoPacket =>
           LET data == Packet_to_bytes(sent)
           IN  /\ Len(data) = 8 + Len(sent.payload)
               /\ SubSeq(data, 1, 4) = magic
               /\ SubSeq(data, 5, 6) = PeerAddr_to_bytes(sent.saddr)
               /\ SubSeq(data, 7, 8) = PeerAddr_to_bytes(sent.daddr)
               /\ SubSeq(data, 9, Len(data)) = sent.payload
    /\ (parsed # NotParsed /\ parsed.ok) =>
           /\ parsed.saddr = IntFromBytes(SubSeq(buffer, 5, 6))
           /\ parsed.daddr = IntFromBytes(SubSeq(buffer, 7, 8))
           /\ parsed.payload = SubSeq(buffer, 9, Len(buffer))

\* C14: from_bytes on a buffer shorter than 8 bytes ends in ValueError, never
\* in a packet.
C14_ShortBuffer ==
    (parsed # NotParsed /\ Len(buffer) < 8) => parsed = ValueError

\* A buffer of seven bytes was refused.
C14_Witness == sent = NoPacket /\ Len(buffer) = 7 /\ parsed = ValueError

\* C15: the scan for a request starts at the token after the one selected
\* last, and a request dispatched when every token is out of its cooldown gets
\* the token after the one selected last.
C15_RoundRobin ==
    [][/\ (qpc = "get" /\ qpc' = "scan" /\ last_token # 0) =>
              cursor' = (last_token % N) + 1
       /\ (/\ N >= 2
           /\ last_token # 0
           /\ dispatch_log' # dispatch_log
           /\ \A i \in 1..N : tokens[i].elapsed > api_ratelimit_secs) =>
              last_token' = (last_token % N) + 1]_vars

Queued(r) == \E k \in 1..Len(request_queue) : request_queue[k] = r

\* C16: with at least one credential every queued request is given a token,
\* whether or not any call in flight ever ends; and no step of the dispatch
\* loop ends a call or resolves a future.
C16_NoWaitForInFlight ==
    /\ \A r \in 1..MaxRequests : (N >= 1 /\ Queued(r)) ~> Selected(r)
    /\ [][(qpc' # qpc \/ cursor' # cursor \/ request' # request) =>
              (tasks \subseteq tasks' /\ futures' = futures)]_vars

\* One credential, three calls in flight at once: two of them were dispatched
\* while earlier ones were still awaiting the transport.
C16_Witness ==
    /\ N = 1
    /\ Cardinality(tasks) = 3
    /\ \A r \in 1..3 : futures[r].state = "pending"

\* C17: with no credential, no request is ever out of the queue with its
\* future pending and no call dispatched for it.
C17_ZeroCredentials ==
    N = 0 =>
        \A r \in 1..Len(futures) :
            futures[r].state = "pending" => (Queued(r) \/ Selected(r))

\* C18: the offset changes only in the step that ends a successful round with
\* at least one raw item; a round answered with no item returns the empty
\* list without error (the loop polls again) and leaves the offset, and so
\* does a round whose call failed.
C18_OffsetFrame ==
    [][/\ update_offset' # update_offset =>
              /\ lpc = "poll_wait"
              /\ futures[awaited].state = "result"
              /\ futures[awaited].value # <<>>
       /\ (/\ lpc = "poll_wait"
           /\ lpc' # "poll_wait"
           /\ futures[awaited].state = "result"
           /\ futures[awaited].value = <<>>) =>
              /\ lpc' = "poll"
              /\ messages' = <<>>
              /\ update_offset' = update_offset
       /\ (/\ lpc = "poll_wait"
           /\ lpc' # "poll_wait"
           /\ futures[awaited].state = "exception") =>
              update_offset' = update_offset]_vars

\* Three rounds and no message ever examined: one round held update 1 (and
\* set the offset), one was answered with nothing, the last one failed.
C18_Witness ==
    /\ lpc = "raised"
    /\ message = NoMessage
    /\ Len(requests) = 3
    /\ update_offset = 1
    /\ deliveries[1] = 1
    /\ deliveries[2] = 0

\* C19: no update is held by the answers of more than one poll round.
C19_NoRedelivery == \A u \in 1..MaxUpdates : deliveries[u] <= 1

\* The requests of listen_task that are queued or in flight.
ListenPending ==
    {r \in 1..Len(requests) :
        requests[r].origin = "listen" /\ futures[r].state = "pending"}

\* C20: listen_task has at most one request queued or in flight; a message is
\* examined only when no request of the loop is outstanding, and it is the
\* next one in the order the poll returned; a poll is enqueued only when no
\* message of the previous round is left and no request is outstanding.
C20_Sequential ==
    /\ [](Cardinality(ListenPending) <= 1)
    /\ [][/\ (lpc = "for" /\ messages' # messages) =>
                 /\ ListenPending = {}
                 /\ awaited = 0
                 /\ message' = Head(messages)
                 /\ messages' = Tail(messages)
          /\ (lpc = "poll" /\ lpc' = "poll_wait") =>
                 /\ ListenPending = {}
                 /\ awaited = 0
                 /\ messages = <<>>
          /\ (lpc # "for" /\ lpc' # "for") => messages' = messages]_vars

\* A round returned two messages; the first, a packet to the server, had its
\* delete call completed, and the delete call of the second is outstanding.
C20_Witness ==
    /\ lpc = "delete_wait"
    /\ awaited = 3
    /\ message.id = 12
    /\ Len(updates) = 2
    /\ HasText(updates[1])
    /\ Route(Message_from_dict(updates[1].channel_post)) = "server"

====
